---------------------------- MODULE Spec2Model ----------------------------
(***************************************************************************)
(* Model of the USGS water-data pipeline: identifier extraction, batching, *)
(* the batched daily-values fetch and its combined result                  *)
(* (src/daily_values.py, src/main.py), the location join                   *)
(* (src/data_loader.py), the cleaner and summarizer (src/eda.py) and the   *)
(* cache policy of the lookups (src/lookups.py).                           *)
(*                                                                         *)
(* Python values are tagged records, so that values of different Python    *)
(* types are different TLA+ values: None, str, int, dict, list.            *)
(***************************************************************************)
EXTENDS Integers, Sequences, FiniteSets, TLC

VARIABLES
    pc,               \* position of the running function / of main()
    input,            \* arguments of the function under analysis
    output,           \* its return value (or the exception it raised)
    dv_df,            \* main.py:42, the daily-values table
    loc_df,           \* main.py:42, the locations table
    param_df,         \* main.py:46, the parameter-code lookup table
    stat_df,          \* main.py:46, the statistic-code lookup table
    joined_df,        \* main.py:63
    parsed_df,        \* main.py:69
    reparsed_df,      \* clean_and_transform_data applied to parsed_df
    summary,          \* the report produce_summary_by_site prints (main.py:76)
    locations_json,   \* argument of fetch_daily_values_for_locations
    env,              \* the environment variables the fetch reads
    ids,              \* daily_values.py:115
    time_range,       \* daily_values.py:119
    batches,          \* daily_values.py:124
    requests,         \* GET requests issued so far, in order (their parameters)
    responses,        \* what the server answered, one entry per request
    all_features,     \* daily_values.py:121
    first_page_meta,  \* daily_values.py:122
    combined,         \* return value of fetch_daily_values_for_locations
    dv_file,          \* content of DV_OUTPUT_FILE (save_daily_values)
    cache_file        \* lookups.py:61, content of the cache file; None if absent

vars == <<pc, input, output, dv_df, loc_df, param_df, stat_df, joined_df,
          parsed_df, reparsed_df, summary, locations_json, env, ids, time_range,
          batches, requests, responses, all_features, first_page_meta,
          combined, dv_file, cache_file>>

fetchVars == <<locations_json, env, ids, time_range, batches, requests,
               responses, all_features, first_page_meta, combined, dv_file>>

callVars == <<input, output>>

lookupVars == <<cache_file>>

tableVars == <<dv_df, loc_df, param_df, stat_df, joined_df, parsed_df,
               reparsed_df, summary>>

-----------------------------------------------------------------------------
(* Bounds of the model *)

MaxExtractFeatures == 3   \* features of a collection given to extract_location_ids
MaxLen == 4               \* length of a sequence given to chunk_list
MaxChunk == 3             \* largest chunk size / batch size tried
MaxFeatures == 4          \* features of the locations collection of a fetch run
MaxRespFeatures == 2      \* features in one batch response
MaxJoinRows == 2          \* rows of the tables given to the joiner
MaxCleanRows == 2         \* rows of the daily-values table given to the cleaner
MaxSummaryRows == 2       \* rows of the daily-values table behind a summary

-----------------------------------------------------------------------------
(* Python values *)

None == [t |-> "none"]
PyStr(s) == [t |-> "str", s |-> s]
PyInt(i) == [t |-> "int", i |-> i]
PyDict(d) == [t |-> "dict", d |-> d]
PyList(l) == [t |-> "list", l |-> l]

EmptyDict == <<>>

\* bool(x): None, "", 0, {} and [] are falsy
Truthy(x) ==
    CASE x.t = "none" -> FALSE
      [] x.t = "str" -> x.s # ""
      [] x.t = "int" -> x.i # 0
      [] x.t = "dict" -> DOMAIN x.d # {}
      [] x.t = "list" -> Len(x.l) > 0

\* str(i) for the integers of the model
IntToStr(i) ==
    CASE i = 0 -> "0"
      [] i = 1 -> "1"
      [] i = 2 -> "2"
      [] OTHER -> "n"

\* str(x) on an identifier
Str(x) ==
    CASE x.t = "str" -> x.s
      [] x.t = "int" -> IntToStr(x.i)
      [] x.t = "none" -> "None"
      [] OTHER -> "{}"

\* d.get(k, default) on a dict modelled as a function
Get(d, k, default) == IF k \in DOMAIN d THEN d[k] ELSE default

Min(a, b) == IF a <= b THEN a ELSE b

SeqsUpTo(S, n) == UNION {[1..k -> S] : k \in 0..n}

RECURSIVE Concat(_)
Concat(ss) == IF ss = <<>> THEN <<>> ELSE Head(ss) \o Concat(Tail(ss))

Range(s) == {s[i] : i \in 1..Len(s)}

-----------------------------------------------------------------------------
(* daily_values.py: extract_location_ids *)

\* mutant: the feature's top-level id is looked at first
FeatureId_TopLevelFirst(f) ==
    LET props == Get(f, "properties", PyDict(EmptyDict)) IN
    IF Truthy(Get(f, "id", None))
        THEN <<Str(f["id"])>>
    ELSE IF props.t = "dict" /\ Truthy(Get(props.d, "id", None))
        THEN <<Str(props.d["id"])>>
    ELSE <<>>

\* lines 47-51: the identifier one feature contributes (<<>> when skipped)
FeatureId(f) ==
    LET props == Get(f, "properties", PyDict(EmptyDict)) IN
    IF props.t = "dict" /\ Truthy(Get(props.d, "id", None))
        THEN <<Str(props.d["id"])>>
    ELSE IF Truthy(Get(f, "id", None))
        THEN <<Str(f["id"])>>
    ELSE <<>>

\* lines 44-51: ids, with duplicates
RECURSIVE CollectIds(_)
CollectIds(features) ==
    IF features = <<>> THEN <<>>
    ELSE FeatureId(Head(features)) \o CollectIds(Tail(features))

\* lines 54-59: de-dupe, preserve order
RECURSIVE DedupFrom(_, _, _)
DedupFrom(xs, seen, out) ==
    IF xs = <<>> THEN out
    ELSE IF Head(xs) \notin seen
        THEN DedupFrom(Tail(xs), seen \cup {Head(xs)}, Append(out, Head(xs)))
    ELSE DedupFrom(Tail(xs), seen, out)

\* mutant: de-dupe keeping the last occurrence of each value
Dedup_KeepLast(xs) ==
    LET Reverse(q) == [i \in 1..Len(q) |-> q[Len(q) + 1 - i]] IN
    Reverse(DedupFrom(Reverse(xs), {}, <<>>))

Dedup(xs) == DedupFrom(xs, {}, <<>>)

extract_location_ids(lj) == Dedup(CollectIds(Get(lj, "features", <<>>)))

-----------------------------------------------------------------------------
(* daily_values.py: chunk_list *)

\* range(0, n, step) for step # 0, as the sequence of its values
RECURSIVE PyRange(_, _, _)
PyRange(start, stop, step) ==
    IF (step > 0 /\ start < stop) \/ (step < 0 /\ start > stop)
        THEN <<start>> \o PyRange(start + step, stop, step)
    ELSE <<>>

\* items[i : j] for 0 <= i
Slice(items, i, j) == SubSeq(items, i + 1, Min(j, Len(items)))

\* line 77; range() raises ValueError when chunk_size = 0
ChunkListRaises(chunk_size) == chunk_size = 0

\* mutant: only full chunks, the trailing partial chunk is lost
chunk_list_FullChunksOnly(items, chunk_size) ==
    LET starts == PyRange(0, Len(items) - chunk_size + 1, chunk_size) IN
    [k \in 1..Len(starts) |-> Slice(items, starts[k], starts[k] + chunk_size)]

chunk_list(items, chunk_size) ==
    LET starts == PyRange(0, Len(items), chunk_size) IN
    [k \in 1..Len(starts) |-> Slice(items, starts[k], starts[k] + chunk_size)]


-----------------------------------------------------------------------------
(* Values shared by the specifications *)

NoCall == [status |-> "none"]
Returned(v) == [status |-> "returned", value |-> v]
Raised(e) == [status |-> "raised", error |-> e]

NoInput == [fn |-> "none"]

\* the table variables while no table is loaded
TablesIdle ==
    /\ dv_df = None
    /\ loc_df = None
    /\ param_df = None
    /\ stat_df = None
    /\ joined_df = NoCall
    /\ parsed_df = NoCall
    /\ reparsed_df = NoCall
    /\ summary = NoCall

\* the fetch run's variables while another function is analysed
LookupsIdle == cache_file = None

FetchIdle ==
    /\ locations_json = EmptyDict
    /\ env = EmptyDict
    /\ ids = <<>>
    /\ time_range = ""
    /\ batches = <<>>
    /\ requests = <<>>
    /\ responses = <<>>
    /\ all_features = <<>>
    /\ first_page_meta = None
    /\ combined = NoCall
    /\ dv_file = None

-----------------------------------------------------------------------------
(* SpecExtract: extract_location_ids applied to bounded feature collections *)

\* values of properties: absent, null, and dicts with or without an id
ExtractProps ==
    {None, PyDict(EmptyDict)}
        \cup {PyDict([id |-> v]) : v \in {PyInt(0), PyInt(1), PyStr("1"), PyStr("a")}}

ExtractTopIds == {PyStr(""), PyStr("a")}

ExtractFeatures ==
    {EmptyDict}
        \cup {[properties |-> p] : p \in ExtractProps}
        \cup {[id |-> i] : i \in ExtractTopIds}
        \cup {[properties |-> p, id |-> i] : p \in ExtractProps, i \in ExtractTopIds}

ExtractInputs ==
    {EmptyDict}
        \cup {[features |-> fs] : fs \in SeqsUpTo(ExtractFeatures, MaxExtractFeatures)}

InitExtract ==
    /\ pc = "call"
    /\ input \in {[fn |-> "extract_location_ids", locations_json |-> lj] :
                      lj \in ExtractInputs}
    /\ output = NoCall
    /\ TablesIdle
    /\ FetchIdle
    /\ LookupsIdle

CallExtract ==
    /\ pc = "call"
    /\ input.fn = "extract_location_ids"
    /\ output' = Returned(extract_location_ids(input.locations_json))
    /\ pc' = "returned"
    /\ UNCHANGED <<input, tableVars, fetchVars, lookupVars>>

NextExtract == CallExtract

SpecExtract == InitExtract /\ [][NextExtract]_vars

-----------------------------------------------------------------------------
(* SpecChunk: chunk_list applied to bounded sequences and chunk sizes *)

ChunkItems == {"a", "b", "c"}

InitChunk ==
    /\ pc = "call"
    /\ input \in {[fn |-> "chunk_list", items |-> it, chunk_size |-> c] :
                      it \in SeqsUpTo(ChunkItems, MaxLen), c \in (0 - 1)..MaxChunk}
    /\ output = NoCall
    /\ TablesIdle
    /\ FetchIdle
    /\ LookupsIdle

CallChunk ==
    /\ pc = "call"
    /\ input.fn = "chunk_list"
    /\ output' = IF ChunkListRaises(input.chunk_size)
                     THEN Raised("ValueError")
                     ELSE Returned(chunk_list(input.items, input.chunk_size))
    /\ pc' = "returned"
    /\ UNCHANGED <<input, tableVars, fetchVars, lookupVars>>

NextChunk == CallChunk

SpecChunk == InitChunk /\ [][NextChunk]_vars

-----------------------------------------------------------------------------
(* Claims about extract_location_ids and chunk_list *)

\* position of the first feature that contributes identifier x
FirstFeatureOf(x, features) ==
    CHOOSE k \in 1..Len(features) :
        /\ FeatureId(features[k]) = <<x>>
        /\ \A j \in 1..(k - 1) : FeatureId(features[j]) # <<x>>

ExtractReturned ==
    pc = "returned" /\ input.fn = "extract_location_ids" /\ output.status = "returned"

\* C1: the list returned by extract_location_ids holds no value twice, holds
\* exactly the identifiers the features contribute, and lists them in the
\* order of their first occurrence among the features.
C1_UniqueFirstSeenOrder ==
    ExtractReturned =>
        LET fs == Get(input.locations_json, "features", <<>>)
            out == output.value
        IN  /\ \A i, j \in 1..Len(out) : i # j => out[i] # out[j]
            /\ Range(out) = {x \in {"", "0", "1", "a", "b", "None", "{}"} :
                                \E k \in 1..Len(fs) : FeatureId(fs[k]) = <<x>>}
            /\ \A i, j \in 1..Len(out) :
                   i < j => FirstFeatureOf(out[i], fs) < FirstFeatureOf(out[j], fs)

\* C1 witness: a collection a, 1, a (a later duplicate) returned as a, 1
C1_Witness ==
    /\ ExtractReturned
    /\ Len(Get(input.locations_json, "features", <<>>)) = 3
    /\ CollectIds(input.locations_json.features) = <<"a", "1", "a">>
    /\ output.value = <<"a", "1">>

ChunkReturned ==
    pc = "returned" /\ input.fn = "chunk_list" /\ output.status = "returned"

\* C2: for a chunk size > 0 the chunks returned by chunk_list, concatenated in
\* order, are the original sequence, and an empty sequence gives zero chunks.
C2_ChunksConcatenateToInput ==
    (ChunkReturned /\ input.chunk_size > 0) =>
        /\ Concat(output.value) = input.items
        /\ (input.items = <<>> => output.value = <<>>)
        /\ \A k \in 1..Len(output.value) : output.value[k] # <<>>

\* C2 witness: a sequence split into a full chunk and a shorter last chunk
C2_Witness ==
    /\ ChunkReturned
    /\ input.chunk_size = 2
    /\ input.items = <<"a", "b", "c">>
    /\ output.value = << <<"a", "b">>, <<"c">> >>

\* C2 witness of the degenerate case is part of the formula's reach
C2_EmptyReached ==
    ChunkReturned /\ input.chunk_size > 0 /\ input.items = <<>> /\ output.value = <<>>


-----------------------------------------------------------------------------
(* daily_values.py: fetch_daily_values_for_locations, and main.py:37-38 *)

\* An environment variable is None (unset), PyStr(text), the decimal text of
\* an integer (NumStr) or the JSON text of an object (JsonStr).
NumStr(i) == [t |-> "numstr", i |-> i]
JsonStr(d) == [t |-> "jsonstr", d |-> d]

\* `not raw`: unset or the empty string
EnvMissing(v) == v.t = "none" \/ (v.t = "str" /\ v.s = "")

\* int(os.getenv(K)) raises TypeError on None and ValueError on other text
IntRaises(v) == v.t # "numstr"
IntOf(v) == v.i

\* json.loads(raw) raises JSONDecodeError on text that is not JSON
JsonRaises(v) == v.t # "jsonstr"

\* lines 21-27: the interval [now - days, now]
calculate_time_range(days, now) == [start |-> now - days, end |-> now]

\* lines 99-113: the error the configuration checks end with, or "" for none
ConfigError(e) ==
    IF EnvMissing(e.USGS_DV_BASE_URL) THEN "RuntimeError: Missing USGS_DV_BASE_URL"
    ELSE IF EnvMissing(e.DV_QUERY_PARAMS) THEN "RuntimeError: Missing DV_QUERY_PARAMS"
    ELSE IF JsonRaises(e.DV_QUERY_PARAMS) THEN "RuntimeError: DV_QUERY_PARAMS is not valid JSON"
    ELSE IF IntRaises(e.DV_BATCH_SIZE) THEN "int(DV_BATCH_SIZE) raised"
    ELSE IF IntRaises(e.API_TIMEOUT_SECONDS) THEN "int(API_TIMEOUT_SECONDS) raised"
    ELSE ""

\* mutant: an empty identifier list is not an error
StartError_EmptyIdsPass(e, lj) ==
    IF ConfigError(e) # "" THEN ConfigError(e)
    ELSE IF IntRaises(e.DV_TIME_RANGE_DAYS) THEN "int(DV_TIME_RANGE_DAYS) raised"
    ELSE IF ChunkListRaises(IntOf(e.DV_BATCH_SIZE)) THEN "ValueError: range() arg 3 must not be zero"
    ELSE ""

\* lines 97-124: everything before the first request; the error it raises, if any
StartError(e, lj) ==
    IF ConfigError(e) # "" THEN ConfigError(e)
    ELSE IF extract_location_ids(lj) = <<>> THEN "RuntimeError: No monitoring location IDs found"
    ELSE IF IntRaises(e.DV_TIME_RANGE_DAYS) THEN "int(DV_TIME_RANGE_DAYS) raised"
    ELSE IF ChunkListRaises(IntOf(e.DV_BATCH_SIZE)) THEN "ValueError: range() arg 3 must not be zero"
    ELSE ""

\* {**a, **b}
DictUpdate(a, b) ==
    [k \in (DOMAIN a) \cup (DOMAIN b) |-> IF k \in DOMAIN b THEN b[k] ELSE a[k]]

\* ",".join(batch), kept as the list of the joined identifiers
JoinIds(batch) == batch

\* lines 129-131: the parameters of the request for one batch
RequestParams(base, batch, tr) ==
    DictUpdate(base, [monitoring_location_id |-> JoinIds(batch), time |-> tr])

\* mutant: the status is never checked
StatusRaises_Never(status) == FALSE

\* line 134: raise_for_status raises on 4xx and 5xx
StatusRaises(status) == status >= 400

\* line 139
MetaOf(data) == [k \in (DOMAIN data) \ {"features"} |-> data[k]]

\* mutant: the latest response's meta replaces the first's
FirstPageMeta_Latest(meta, data) == PyDict(MetaOf(data))

\* lines 137-139: the meta is taken from the first response only
FirstPageMeta(meta, data) == IF meta = None THEN PyDict(MetaOf(data)) ELSE meta

\* mutant: a features field that is not a list is added as one feature
FeaturesOf_AppendsNonList(data) ==
    LET features == Get(data, "features", PyList(<<>>)) IN
    IF features.t = "list" THEN features.l ELSE <<features>>

\* lines 141-143: what one response adds to all_features
FeaturesOf(data) ==
    LET features == Get(data, "features", PyList(<<>>)) IN
    IF features.t = "list" THEN features.l ELSE <<>>

\* mutant: the first response's keys override the run's own
Combine_MetaWins(meta, feats, batch_size, nbatches, tr) ==
    DictUpdate([features |-> feats,
                numberReturned |-> Len(feats),
                total_features |-> Len(feats),
                batch_size |-> batch_size,
                batches |-> nbatches,
                time_range |-> tr],
               IF meta = None THEN EmptyDict ELSE meta.d)

\* lines 147-155
Combine(meta, feats, batch_size, nbatches, tr) ==
    DictUpdate(IF meta = None THEN EmptyDict ELSE meta.d,
               [features |-> feats,
                numberReturned |-> Len(feats),
                total_features |-> Len(feats),
                batch_size |-> batch_size,
                batches |-> nbatches,
                time_range |-> tr])

\* main.py:37 entered: lines 97-124 of the fetch
FetchStart ==
    /\ pc = "main_fetch"
    /\ IF StartError(env, locations_json) # ""
         THEN /\ combined' = Raised(StartError(env, locations_json))
              /\ pc' = "aborted"
              /\ UNCHANGED <<ids, time_range, batches>>
         ELSE /\ ids' = extract_location_ids(locations_json)
              /\ time_range' = calculate_time_range(IntOf(env.DV_TIME_RANGE_DAYS), env.clock)
              /\ batches' = chunk_list(extract_location_ids(locations_json),
                                       IntOf(env.DV_BATCH_SIZE))
              /\ pc' = "loop"
              /\ UNCHANGED combined
    /\ UNCHANGED <<callVars, lookupVars, tableVars, locations_json, env, requests, responses,
                   all_features, first_page_meta, dv_file>>

\* mutant: the batches are walked from the last to the first
NextBatch_Reversed == batches[Len(batches) - Len(requests)]

\* the request of the loop's next iteration
NextBatch == batches[Len(requests) + 1]

NextRequest ==
    RequestParams(env.DV_QUERY_PARAMS.d, NextBatch, time_range)

\* the bodies a server may answer request number k with: features tagged with
\* the request they answer, or a missing or non-list features field
ResponseFeatures(k) ==
    {PyList([j \in 1..n |-> [batch |-> k, item |-> j]]) : n \in 0..MaxRespFeatures}
        \cup {None}

ResponseBodies(k) ==
    {[features |-> fs, type |-> "FeatureCollection",
      numberReturned |-> IF fs.t = "list" THEN Len(fs.l) ELSE 0] :
         fs \in ResponseFeatures(k)}
        \cup {[features |-> fs] : fs \in ResponseFeatures(k)}
        \cup {[type |-> "FeatureCollection"]}

\* the status codes a server may answer with
Statuses == {200, 503}

\* lines 128-143, one iteration: the GET is answered and raise_for_status passes
FetchBatchOk ==
    /\ pc = "loop"
    /\ Len(requests) < Len(batches)
    /\ IntOf(env.API_TIMEOUT_SECONDS) > 0
    /\ \E status \in Statuses, data \in ResponseBodies(Len(requests) + 1) :
          /\ ~StatusRaises(status)
          /\ requests' = Append(requests, NextRequest)
          /\ responses' = Append(responses, [status |-> status, data |-> data])
          /\ first_page_meta' = FirstPageMeta(first_page_meta, data)
          /\ all_features' = all_features \o FeaturesOf(data)
    /\ UNCHANGED <<pc, callVars, lookupVars, tableVars, locations_json, env, ids, time_range, batches,
                   combined, dv_file>>

\* lines 133-134: the GET is answered with an error status and
\* raise_for_status raises; the body is never read
FetchBatchHttpError ==
    /\ pc = "loop"
    /\ Len(requests) < Len(batches)
    /\ IntOf(env.API_TIMEOUT_SECONDS) > 0
    /\ \E status \in Statuses :
          /\ StatusRaises(status)
          /\ requests' = Append(requests, NextRequest)
          /\ responses' = Append(responses, [status |-> status, data |-> EmptyDict])
          /\ combined' = Raised("HTTPError")
    /\ pc' = "aborted"
    /\ UNCHANGED <<callVars, lookupVars, tableVars, locations_json, env, ids, time_range, batches,
                   all_features, first_page_meta, dv_file>>

\* line 133 with a timeout <= 0: requests rejects the timeout, nothing is sent
FetchBatchBadTimeout ==
    /\ pc = "loop"
    /\ Len(requests) < Len(batches)
    /\ IntOf(env.API_TIMEOUT_SECONDS) <= 0
    /\ combined' = Raised("ValueError: timeout")
    /\ pc' = "aborted"
    /\ UNCHANGED <<callVars, lookupVars, tableVars, locations_json, env, ids, time_range, batches,
                   requests, responses, all_features, first_page_meta, dv_file>>

\* lines 147-157: the loop is over, the Combined Result is returned to main
FetchReturn ==
    /\ pc = "loop"
    /\ Len(requests) = Len(batches)
    /\ combined' = Returned(Combine(first_page_meta, all_features,
                                    IntOf(env.DV_BATCH_SIZE), Len(batches), time_range))
    /\ pc' = "main_save"
    /\ UNCHANGED <<callVars, lookupVars, tableVars, locations_json, env, ids, time_range, batches,
                   requests, responses, all_features, first_page_meta, dv_file>>

\* main.py:38, daily_values.py:175-179
SaveDailyValues ==
    /\ pc = "main_save"
    /\ dv_file' = PyDict(combined.value)
    /\ pc' = "main_load"
    /\ UNCHANGED <<callVars, lookupVars, tableVars, locations_json, env, ids, time_range, batches,
                   requests, responses, all_features, first_page_meta, combined>>

\* the locations collections of a run: every feature supplies an identifier
RunFeatures == {[properties |-> PyDict([id |-> PyStr(x)])] : x \in {"a", "b", "c"}}

RunLocations == {[features |-> fs] : fs \in SeqsUpTo(RunFeatures, MaxFeatures)}

\* the collections the configuration cases are run on: no features key, no
\* features, a feature without identifier, one and two identifiers
ConfigLocations ==
    {EmptyDict,
     [features |-> <<>>],
     [features |-> <<[properties |-> PyDict(EmptyDict)]>>],
     [features |-> <<[properties |-> PyDict([id |-> PyStr("a")])]>>],
     [features |-> <<[properties |-> PyDict([id |-> PyStr("a")])],
                     [properties |-> PyDict(EmptyDict), id |-> PyStr("b")]>>]}

\* every combination of set, unset and malformed settings
RunEnvs ==
    [USGS_DV_BASE_URL : {None, PyStr("https://api/daily")},
     DV_QUERY_PARAMS : {None, PyStr("{not json"), JsonStr([f |-> "json"])},
     DV_BATCH_SIZE : {None, PyStr("ten")} \cup {NumStr(i) : i \in (0 - 1)..MaxChunk},
     API_TIMEOUT_SECONDS : {None, NumStr(0), NumStr(30)},
     DV_TIME_RANGE_DAYS : {None, NumStr(0 - 1), NumStr(90)},
     clock : {1000}]

\* the settings of a well-configured run; only the batch size varies
NominalEnvs ==
    {e \in RunEnvs :
        /\ e.USGS_DV_BASE_URL = PyStr("https://api/daily")
        /\ e.DV_QUERY_PARAMS = JsonStr([f |-> "json"])
        /\ e.DV_BATCH_SIZE.t = "numstr" /\ e.DV_BATCH_SIZE.i > 0
        /\ e.API_TIMEOUT_SECONDS = NumStr(30)
        /\ e.DV_TIME_RANGE_DAYS = NumStr(90)}

Init ==
    /\ pc = "main_fetch"
    /\ input = NoInput
    /\ output = NoCall
    /\ TablesIdle
    /\ \/ locations_json \in RunLocations /\ env \in NominalEnvs
       \/ locations_json \in ConfigLocations /\ env \in RunEnvs
    /\ ids = <<>>
    /\ time_range = ""
    /\ batches = <<>>
    /\ requests = <<>>
    /\ responses = <<>>
    /\ all_features = <<>>
    /\ first_page_meta = None
    /\ combined = NoCall
    /\ dv_file = None
    /\ LookupsIdle

Next ==
    \/ FetchStart
    \/ FetchBatchOk
    \/ FetchBatchHttpError
    \/ FetchBatchBadTimeout
    \/ FetchReturn
    \/ SaveDailyValues

Spec == Init /\ [][Next]_vars


-----------------------------------------------------------------------------
(* Claims about the fetch run *)

\* the identifiers a collection's features supply, without repetition
UniqueIdsOf(lj) ==
    LET fs == Get(lj, "features", <<>>) IN
    {x \in {"a", "b", "c"} : \E k \in 1..Len(fs) : FeatureId(fs[k]) = <<x>>}

CeilDiv(n, b) == (n + b - 1) \div b

\* the identifiers request number k carries
IdsOfRequest(k) == requests[k].monitoring_location_id

\* the run returned a Combined Result: every request it made succeeded
RunSucceeded == combined.status = "returned"

\* C3: a run over n unique identifiers with batch size b > 0 whose requests all
\* succeed issues exactly ceil(n/b) requests, in chunk order; every request
\* but the last carries b identifiers, the last carries the remainder, and no
\* identifier is carried twice.
C3_RequestsFollowChunks ==
    (RunSucceeded /\ IntOf(env.DV_BATCH_SIZE) > 0) =>
        LET n == Cardinality(UniqueIdsOf(locations_json))
            b == IntOf(env.DV_BATCH_SIZE)
            r == Len(requests)
        IN  /\ r = CeilDiv(n, b)
            /\ \A k \in 1..(r - 1) : Len(IdsOfRequest(k)) = b
            /\ Len(IdsOfRequest(r)) = n - b * (r - 1)
            /\ Len(IdsOfRequest(r)) \in 1..b
            /\ Concat([k \in 1..r |-> IdsOfRequest(k)])
                   = extract_location_ids(locations_json)
            /\ \A k1, k2 \in 1..r : \A i1 \in 1..Len(IdsOfRequest(k1)) :
                   \A i2 \in 1..Len(IdsOfRequest(k2)) :
                       (k1 # k2 \/ i1 # i2) => IdsOfRequest(k1)[i1] # IdsOfRequest(k2)[i2]

\* C3 witness: three unique identifiers (one supplied twice) with batch size 2
\* fetched by two requests of 2 and 1 identifiers
C3_Witness ==
    /\ RunSucceeded
    /\ IntOf(env.DV_BATCH_SIZE) = 2
    /\ Len(locations_json.features) > Cardinality(UniqueIdsOf(locations_json))
    /\ Cardinality(UniqueIdsOf(locations_json)) = 3
    /\ Len(requests) = 2
    /\ Len(IdsOfRequest(1)) = 2
    /\ Len(IdsOfRequest(2)) = 1

\* the feature list response number k delivers (none when it is not a list)
DeliveredBy(k) ==
    LET d == responses[k].data IN
    IF "features" \in DOMAIN d /\ d.features.t = "list" THEN d.features.l ELSE <<>>

\* C4: when every batch request succeeds the Combined Result's features are
\* the per-batch feature lists concatenated in batch order, batches is the
\* number of batches requested, and total_features and numberReturned are
\* the length of the features list.
C4_CombinedIsConcatenation ==
    RunSucceeded =>
        LET c == combined.value IN
        /\ c.features = Concat([k \in 1..Len(responses) |-> DeliveredBy(k)])
        /\ c.batches = Len(requests)
        /\ c.batches = Len(batches)
        /\ c.total_features = Len(c.features)
        /\ c.numberReturned = Len(c.features)

\* C4 witness: 2 batches answered with 2 and 1 features give 3 features in
\* batch-then-within-batch order, batches = 2, total_features = 3, although
\* the first response said numberReturned = 2
C4_Witness ==
    /\ RunSucceeded
    /\ Len(responses) = 2
    /\ Len(DeliveredBy(1)) = 2
    /\ Len(DeliveredBy(2)) = 1
    /\ Get(responses[1].data, "numberReturned", 0) = 2
    /\ combined.value.features
           = <<[batch |-> 1, item |-> 1], [batch |-> 1, item |-> 2],
               [batch |-> 2, item |-> 1]>>
    /\ combined.value.batches = 2
    /\ combined.value.total_features = 3
    /\ combined.value.numberReturned = 3

\* some request of the run was answered with a non-success status
FailedRequests == {k \in 1..Len(responses) : responses[k].status >= 400}

\* C10: once the request for batch k is answered with a non-success status
\* the run is aborted with that error: request k is the last request issued
\* (none follows, none is repeated), no Combined Result is returned and the
\* daily-values file is not written by the run.
C10_HttpErrorAbortsRun ==
    \A k \in FailedRequests :
        /\ k = Len(requests)
        /\ \A j \in 1..Len(requests) : IdsOfRequest(j) = batches[j]
        /\ pc = "aborted"
        /\ combined = Raised("HTTPError")
        /\ dv_file = None

\* C10, as a step property: an aborted run takes no further step
C10_AbortedRunStops == [][pc = "aborted" => pc' = "aborted"]_vars

\* C10 witness: the second of three batches fails after the first delivered
\* features; the third is never requested and nothing is returned or written
C10_Witness ==
    /\ FailedRequests = {2}
    /\ Len(batches) = 3
    /\ Len(requests) = 2
    /\ all_features # <<>>
    /\ combined.status = "raised"
    /\ dv_file = None


-----------------------------------------------------------------------------
(* pandas: the DataFrame operations the joiner, cleaner and summarizer use *)

\* A cell is None (None, NaN and NaT alike), PyStr, PyFloat (a number, held
\* in thousandths) or Timestamp (a day number; tz is "UTC" or "naive").
PyFloat(m) == [t |-> "float", m |-> m]
Timestamp(d, tz) == [t |-> "timestamp", day |-> d, tz |-> tz]

IsNa(c) == c.t = "none"

\* a table: its column names in order, and its rows (column name -> cell)
DataFrame(cols, rows) == [columns |-> cols, rows |-> rows]
Columns(df) == Range(df.columns)

\* f applied to a result that may be a raised exception
Then(r, F(_)) == IF r.status = "raised" THEN r ELSE F(r.value)

\* df[cols]: KeyError when a column is missing
Select(df, cols) ==
    IF Range(cols) \subseteq Columns(df)
        THEN Returned(DataFrame(cols,
                 [i \in 1..Len(df.rows) |-> [c \in Range(cols) |-> df.rows[i][c]]]))
    ELSE Raised("KeyError")

\* df.drop(columns=cols): KeyError when a column is missing
DropColumns(df, cols) ==
    IF cols \subseteq Columns(df)
        THEN LET Keep(c) == c \notin cols
                 kept == SelectSeq(df.columns, Keep)
             IN  Returned(DataFrame(kept,
                     [i \in 1..Len(df.rows) |-> [c \in Range(kept) |-> df.rows[i][c]]]))
    ELSE Raised("KeyError")

\* df[col] = f(df[col]): KeyError when the column is missing
MapColumn(df, col, F(_)) ==
    IF col \in Columns(df)
        THEN Returned(DataFrame(df.columns,
                 [i \in 1..Len(df.rows) |->
                     [c \in Columns(df) |-> IF c = col THEN F(df.rows[i][c])
                                                       ELSE df.rows[i][c]]]))
    ELSE Raised("KeyError")

\* df.rename(columns={old: new}); a missing column is ignored
RenameColumn(df, old, new) ==
    LET N(c) == IF c = old THEN new ELSE c
        cols == [i \in 1..Len(df.columns) |-> N(df.columns[i])]
    IN  DataFrame(cols,
            [i \in 1..Len(df.rows) |->
                [c \in Range(cols) |-> IF c = new /\ old \in Columns(df)
                                           THEN df.rows[i][old] ELSE df.rows[i][c]]])

\* df.drop_duplicates(): the first of each run of identical rows is kept
DropDuplicates(df) ==
    LET First(i) == \A j \in 1..(i - 1) : df.rows[j] # df.rows[i]
        idx == SelectSeq([i \in 1..Len(df.rows) |-> i], First)
    IN  DataFrame(df.columns, [k \in 1..Len(idx) |-> df.rows[idx[k]]])

\* mutant: all rows with a null in any column are dropped (dropna())
DropNa_AnyColumn(df, col) ==
    IF col \in Columns(df)
        THEN LET Full(r) == \A c \in Columns(df) : ~IsNa(r[c])
             IN  Returned(DataFrame(df.columns, SelectSeq(df.rows, Full)))
    ELSE Raised("KeyError")

\* df.dropna(subset=[col]).reset_index(drop=True)
DropNa(df, col) ==
    IF col \in Columns(df)
        THEN LET Valued(r) == ~IsNa(r[col])
             IN  Returned(DataFrame(df.columns, SelectSeq(df.rows, Valued)))
    ELSE Raised("KeyError")

\* merge keys are compared by value, and a null key matches a null key
KeyEq(a, b) == a = b

\* mutant: how="inner", a left row without match is dropped
MergeRows_Inner(l, matches, nullRow) == matches

\* how="left": the rows one left row yields, given its matching right rows
MergeRows(l, matches, nullRow) ==
    IF matches = <<>> THEN <<nullRow>> ELSE matches

\* left.merge(right, how="left", left_on=left_on, right_on=right_on) with
\* two different key names: both key columns are kept, a column name that is
\* in both tables gets the suffixes _x and _y
Merge(left, right, left_on, right_on) ==
    IF left_on \notin Columns(left) \/ right_on \notin Columns(right)
        THEN Raised("KeyError")
    ELSE
    LET overlap == Columns(left) \cap Columns(right)
        LName(c) == IF c \in overlap THEN c \o "_x" ELSE c
        RName(c) == IF c \in overlap THEN c \o "_y" ELSE c
        lcols == [i \in 1..Len(left.columns) |-> LName(left.columns[i])]
        rcols == [i \in 1..Len(right.columns) |-> RName(right.columns[i])]
        cols == lcols \o rcols
        nullRight == [c \in Columns(right) |-> None]
        Glue(l, r) ==
            [c \in Range(cols) |->
                IF c \in Range(lcols)
                    THEN l[CHOOSE lc \in Columns(left) : LName(lc) = c]
                    ELSE r[CHOOSE rc \in Columns(right) : RName(rc) = c]]
        Matches(l) ==
            LET Hit(r) == KeyEq(l[left_on], r[right_on]) IN SelectSeq(right.rows, Hit)
        RowsOf(l) ==
            LET out == MergeRows(l, Matches(l), nullRight)
            IN  [k \in 1..Len(out) |-> Glue(l, out[k])]
    IN  IF Range(lcols) \cap Range(rcols) # {}
            THEN Raised("MergeError")
        ELSE Returned(DataFrame(cols,
                 Concat([i \in 1..Len(left.rows) |-> RowsOf(left.rows[i])])))

-----------------------------------------------------------------------------
(* data_loader.py: join_daily_values_with_locations *)

\* lines 60-68
loc_keep ==
    <<"id", "agency_name", "monitoring_location_name", "country_name",
      "state_name", "county_name", "site_type">>

\* lines 70-77
join_daily_values_with_locations(dv, loc) ==
    LET DoMerge(loc_filtered) == Merge(dv, loc_filtered, "monitoring_location_id", "id")
    IN  Then(Select(loc, loc_keep), DoMerge)

-----------------------------------------------------------------------------
(* eda.py: clean_and_transform_data *)

\* str.strip() on the time texts of the model
Strip(s) ==
    CASE s = " 2024-01-02 " -> "2024-01-02"
      [] OTHER -> s

\* the day a date text names, 0 when the text is no date
ParseDate(s) ==
    CASE s = "2024-01-01" -> 1
      [] s = "2024-01-02" -> 2
      [] OTHER -> 0

\* str(Timestamp) and strftime("%Y-%m-%d") for the days of the model
DateText(d) ==
    CASE d = 1 -> "2024-01-01"
      [] d = 2 -> "2024-01-02"
      [] OTHER -> "NaT"

\* astype(str) on one cell
AsTypeStr(c) ==
    CASE c.t = "str" -> c.s
      [] c.t = "timestamp" -> DateText(c.day)
      [] c.t = "none" -> "None"
      [] OTHER -> "1.0"

\* line 92: pd.to_datetime(astype(str).str.strip(), errors="coerce")
ToDatetimeStripped(c) ==
    LET d == ParseDate(Strip(AsTypeStr(c))) IN
    IF d = 0 THEN None
    ELSE Timestamp(d, IF c.t = "timestamp" THEN c.tz ELSE "naive")

\* line 93: pd.to_datetime(errors="coerce", utc=True)
ToDatetimeUtc(c) ==
    CASE c.t = "str" -> IF ParseDate(c.s) = 0 THEN None ELSE Timestamp(ParseDate(c.s), "UTC")
      [] c.t = "timestamp" -> Timestamp(c.day, "UTC")
      [] OTHER -> None

\* mutant: errors="ignore", a value that is no number is left as it is
ToNumeric_Ignore(c) ==
    CASE c.t = "float" -> c
      [] c.t = "str" -> (CASE c.s = "3.5" -> PyFloat(3500)
                           [] c.s = "1.0" -> PyFloat(1000)
                           [] OTHER -> c)
      [] OTHER -> c

\* line 96: pd.to_numeric(errors="coerce")
ToNumeric(c) ==
    CASE c.t = "float" -> c
      [] c.t = "str" -> (CASE c.s = "3.5" -> PyFloat(3500)
                           [] c.s = "1.0" -> PyFloat(1000)
                           [] OTHER -> None)
      [] OTHER -> None

\* lines 121-138
final_cols ==
    <<"id", "monitoring_location_id", "monitoring_location_name", "site_type",
      "time", "last_modified", "parameter_code", "parameter_name", "value",
      "unit_of_measure", "statistic_id", "statistic_description",
      "approval_status", "agency_name", "state_name", "county_name">>

\* lines 103-105
DropQualifier(df) ==
    IF "qualifier" \in Columns(df) THEN DropColumns(df, {"qualifier"}) ELSE Returned(df)

\* lines 108-110 and 113-115: one lookup join
JoinLookup(df, lookup, code_col, name_col) ==
    LET DropId(m) == DropColumns(m, {"id"})
        DoMerge(small) == Then(Merge(df, DropDuplicates(small), code_col, "id"), DropId)
    IN  Then(Select(lookup, <<"id", name_col>>), DoMerge)

\* lines 89-143
clean_and_transform_data(joined, param, stat) ==
    LET S2(df) == MapColumn(df, "last_modified", ToDatetimeUtc)
        S3(df) == MapColumn(df, "value", ToNumeric)
        S4(df) == DropNa(df, "value")
        S6(df) == JoinLookup(df, param, "parameter_code", "parameter_name")
        S7(df) == JoinLookup(df, stat, "statistic_id", "statistic_description")
        S8(df) == Select(RenameColumn(df, "id_x", "id"), final_cols)
    IN  Then(Then(Then(Then(Then(Then(Then(
            MapColumn(joined, "time", ToDatetimeStripped),
            S2), S3), S4), DropQualifier), S6), S7), S8)


-----------------------------------------------------------------------------
(* eda.py: produce_summary_by_site *)

\* round(2) of num/den thousandths, in thousandths (half to even)
Round2(num, den) ==
    LET unit == 10 * den
        q == num \div unit
        r == num % unit
    IN  10 * (IF 2 * r < unit THEN q
              ELSE IF 2 * r > unit THEN q + 1
              ELSE IF q % 2 = 0 THEN q ELSE q + 1)

\* alphabetical order of the names of the model
TextRank(s) ==
    CASE s = "Discharge" -> 1
      [] s = "PECOS RIVER" -> 2
      [] s = "RIO GRANDE, NM" -> 3
      [] s = "Streamflow" -> 4
      [] s = "Temperature" -> 5
      [] OTHER -> 6

\* str.replace(", NM", "")
StripNM(s) ==
    CASE s = "RIO GRANDE, NM" -> "RIO GRANDE"
      [] OTHER -> s

\* the group key of a row
KeyOf(r) == <<r["monitoring_location_name"], r["parameter_name"]>>

\* groupby drops the rows that have a null in a key column
GroupKeys(df) ==
    {KeyOf(df.rows[i]) : i \in 1..Len(df.rows)} \ {k \in {KeyOf(df.rows[i]) : i \in 1..Len(df.rows)} :
                                                        IsNa(k[1]) \/ IsNa(k[2])}

KeyLess(a, b) ==
    \/ TextRank(a[1].s) < TextRank(b[1].s)
    \/ TextRank(a[1].s) = TextRank(b[1].s) /\ TextRank(a[2].s) < TextRank(b[2].s)

\* the keys in the (site, parameter) order of the report
RECURSIVE SortKeys(_)
SortKeys(ks) ==
    IF ks = {} THEN <<>>
    ELSE LET m == CHOOSE k \in ks : \A o \in ks \ {k} : KeyLess(k, o)
         IN  <<m>> \o SortKeys(ks \ {m})

\* sort_values("time"): ascending, NaT last, equal times in input order
TimeLeq(a, b) ==
    IF IsNa(b["time"]) THEN TRUE
    ELSE IF IsNa(a["time"]) THEN FALSE
    ELSE a["time"].day <= b["time"].day

RECURSIVE InsertByTime(_, _)
InsertByTime(sorted, r) ==
    IF sorted = <<>> THEN <<r>>
    ELSE IF TimeLeq(Head(sorted), r) THEN <<Head(sorted)>> \o InsertByTime(Tail(sorted), r)
    ELSE <<r>> \o sorted

RECURSIVE SortByTime(_)
SortByTime(rows) ==
    IF rows = <<>> THEN <<>>
    ELSE InsertByTime(SortByTime(SubSeq(rows, 1, Len(rows) - 1)), rows[Len(rows)])

SetMin(S) == CHOOSE x \in S : \A y \in S : x <= y
SetMax(S) == CHOOSE x \in S : \A y \in S : x >= y

RECURSIVE SumOf(_)
SumOf(q) == IF q = <<>> THEN 0 ELSE Head(q) + SumOf(Tail(q))

\* line 178: the row groupby(...).tail(1) keeps for one group
RecentRow(df, k) ==
    LET InGroup(r) == KeyOf(r) = k
        g == SelectSeq(SortByTime(df.rows), InGroup)
    IN  g[Len(g)]

\* lines 166-198: the line of the report for one group
SummaryLine(df, k) ==
    LET InGroup(r) == KeyOf(r) = k
        g == SelectSeq(df.rows, InGroup)
        Valued(r) == ~IsNa(r["value"])
        vals == [i \in 1..Len(SelectSeq(g, Valued)) |-> SelectSeq(g, Valued)[i]["value"].m]
        days == {g[i]["time"].day : i \in {j \in 1..Len(g) : ~IsNa(g[j]["time"])}}
        recent == RecentRow(df, k)
    IN  [Site |-> StripNM(k[1].s),
         Parameter |-> k[2].s,
         Unit |-> recent["unit_of_measure"],
         Obs |-> Len(vals),
         Min |-> IF vals = <<>> THEN None ELSE PyFloat(Round2(SetMin(Range(vals)), 1)),
         Max |-> IF vals = <<>> THEN None ELSE PyFloat(Round2(SetMax(Range(vals)), 1)),
         Avg |-> IF vals = <<>> THEN None ELSE PyFloat(Round2(SumOf(vals), Len(vals))),
         Recent |-> IF IsNa(recent["value"]) THEN None
                    ELSE PyFloat(Round2(recent["value"].m, 1)),
         RecentDate |-> IF days = {} THEN None ELSE PyStr(DateText(SetMax(days)))]

\* lines 159-241: the lines printed, in order
produce_summary_by_site(cleaned) ==
    LET ks == SortKeys(GroupKeys(cleaned))
    IN  [i \in 1..Len(ks) |-> SummaryLine(cleaned, ks[i])]

-----------------------------------------------------------------------------
(* main.py:63-76: join, clean, summarize *)

\* main.py:63
MainJoin ==
    /\ pc = "main_join"
    /\ joined_df' = join_daily_values_with_locations(dv_df, loc_df)
    /\ pc' = IF joined_df'.status = "raised" THEN "aborted" ELSE "main_clean"
    /\ UNCHANGED <<callVars, lookupVars, fetchVars, dv_df, loc_df, param_df, stat_df,
                   parsed_df, reparsed_df, summary>>

\* main.py:69
MainClean ==
    /\ pc = "main_clean"
    /\ parsed_df' = clean_and_transform_data(joined_df.value, param_df, stat_df)
    /\ pc' = IF parsed_df'.status = "raised" THEN "aborted" ELSE "main_summary"
    /\ UNCHANGED <<callVars, lookupVars, fetchVars, dv_df, loc_df, param_df, stat_df,
                   joined_df, reparsed_df, summary>>

\* main.py:76
MainSummary ==
    /\ pc = "main_summary"
    /\ summary' = Returned(produce_summary_by_site(parsed_df.value))
    /\ pc' = "main_plots"
    /\ UNCHANGED <<callVars, lookupVars, fetchVars, dv_df, loc_df, param_df, stat_df,
                   joined_df, parsed_df, reparsed_df>>

\* the cleaner run a second time, on its own output, with the same lookups
CleanAgain ==
    /\ parsed_df.status = "returned"
    /\ reparsed_df = NoCall
    /\ reparsed_df' = clean_and_transform_data(parsed_df.value, param_df, stat_df)
    /\ UNCHANGED <<pc, callVars, lookupVars, fetchVars, dv_df, loc_df, param_df, stat_df,
                   joined_df, parsed_df, summary>>

NextTables ==
    \/ MainJoin
    \/ MainClean
    \/ MainSummary
    \/ CleanAgain


-----------------------------------------------------------------------------
(* The tables of the model *)

\* the properties of a daily-value feature (data_loader.py:20-25)
DvColumns ==
    <<"id", "monitoring_location_id", "parameter_code", "statistic_id", "time",
      "value", "unit_of_measure", "approval_status", "qualifier", "last_modified">>

\* the id of the i-th daily value
TagOf(i) == PyStr("dv-" \o IntToStr(i))

\* a daily-values table whose i-th row has the fields k[i] gives
DvTable(k) ==
    DataFrame(DvColumns,
        [i \in 1..Len(k) |->
            [id |-> TagOf(i),
             monitoring_location_id |-> k[i].loc,
             parameter_code |-> k[i].code,
             statistic_id |-> PyStr("00003"),
             time |-> k[i].time,
             value |-> k[i].value,
             unit_of_measure |-> PyStr("ft^3/s"),
             approval_status |-> PyStr("Approved"),
             qualifier |-> None,
             last_modified |-> PyStr("2024-01-02")]])

\* a table read from a collection without features: no rows, no columns
EmptyFrame == DataFrame(<<>>, <<>>)

\* the properties of a location feature: the kept columns and one more
LocColumns == loc_keep \o <<"hydrologic_unit_code">>

LocRow(id, name, county) ==
    [id |-> id, agency_name |-> PyStr("USGS"), monitoring_location_name |-> name,
     country_name |-> PyStr("US"), state_name |-> PyStr("New Mexico"),
     county_name |-> county, site_type |-> PyStr("Stream"),
     hydrologic_unit_code |-> PyStr("1302")]

LocL1 == LocRow(PyStr("L1"), PyStr("RIO GRANDE, NM"), PyStr("Taos"))
LocL1Again == LocRow(PyStr("L1"), PyStr("RIO GRANDE, NM"), PyStr("Sandoval"))
LocL2 == LocRow(PyStr("L2"), PyStr("PECOS RIVER"), PyStr("Eddy"))
LocNoId == LocRow(None, PyStr("PECOS RIVER"), None)

LocTable(rows) == DataFrame(LocColumns, rows)

ParamRow(code, name) == [id |-> PyStr(code), parameter_name |-> PyStr(name),
                         unit_of_measure |-> PyStr("ft^3/s")]

ParamTable(rows) == DataFrame(<<"id", "parameter_name", "unit_of_measure">>, rows)

\* the lookup as the API gives it, with a row repeated, with two names for
\* one code, and without the code of the daily values
ParamNominal == ParamTable(<<ParamRow("00060", "Discharge"), ParamRow("00010", "Temperature")>>)
ParamRepeated ==
    ParamTable(<<ParamRow("00060", "Discharge"), ParamRow("00060", "Discharge"),
                 ParamRow("00010", "Temperature")>>)
ParamTwoNames ==
    ParamTable(<<ParamRow("00060", "Discharge"), ParamRow("00060", "Streamflow")>>)
ParamWithout == ParamTable(<<ParamRow("00010", "Temperature")>>)

StatNominal ==
    DataFrame(<<"id", "statistic_description">>,
              <<[id |-> PyStr("00003"), statistic_description |-> PyStr("Mean")]>>)

\* the start of main.py:63 with the four tables loaded
TablesLoaded(dv, loc, param, stat) ==
    /\ pc = "main_join"
    /\ input = NoInput
    /\ output = NoCall
    /\ dv_df = dv
    /\ loc_df = loc
    /\ param_df = param
    /\ stat_df = stat
    /\ joined_df = NoCall
    /\ parsed_df = NoCall
    /\ reparsed_df = NoCall
    /\ summary = NoCall
    /\ FetchIdle
    /\ LookupsIdle

-----------------------------------------------------------------------------
(* SpecJoin: the joiner on bounded daily-values and location tables *)

JoinDvKinds ==
    [loc : {PyStr("L1"), PyStr("L2"), None}, code : {PyStr("00060")},
     time : {PyStr("2024-01-01")}, value : {PyStr("3.5")}]

JoinDvTables == {DvTable(k) : k \in SeqsUpTo(JoinDvKinds, MaxJoinRows)} \cup {EmptyFrame}

JoinLocTables ==
    {LocTable(r) : r \in SeqsUpTo({LocL1, LocL1Again, LocL2, LocNoId}, MaxJoinRows)}
        \cup {EmptyFrame}

InitJoin ==
    \E dv \in JoinDvTables, loc \in JoinLocTables :
        TablesLoaded(dv, loc, ParamNominal, StatNominal)

SpecJoin == InitJoin /\ [][NextTables]_vars

-----------------------------------------------------------------------------
(* SpecClean: join and cleaner on bounded daily values and lookups *)

CleanDvKinds ==
    [loc : {PyStr("L1")}, code : {PyStr("00060")},
     time : {PyStr("2024-01-01"), PyStr("n/a"), None},
     value : {PyStr("3.5"), PyFloat(1000), PyStr("not_a_number"), None}]
        \cup [loc : {PyStr("L9")}, code : {PyStr("00060")}, time : {None},
              value : {PyStr("3.5"), PyStr("not_a_number")}]

CleanDvTables == {DvTable(k) : k \in SeqsUpTo(CleanDvKinds, MaxCleanRows)}

CleanParamTables == {ParamNominal, ParamRepeated, ParamTwoNames, ParamWithout}

InitClean ==
    \E dv \in CleanDvTables, param \in CleanParamTables :
        TablesLoaded(dv, LocTable(<<LocL1, LocL2>>), param, StatNominal)

SpecClean == InitClean /\ [][NextTables]_vars

-----------------------------------------------------------------------------
(* SpecSummary: the summarizer on the cleaned tables of bounded daily values *)

SummaryDvKinds ==
    [loc : {PyStr("L1")}, code : {PyStr("00060"), PyStr("00010")},
     time : {PyStr("2024-01-01"), PyStr(" 2024-01-02 "), PyStr("n/a")},
     value : {PyFloat(1000), PyFloat(3000), PyFloat(1234)}]
        \cup [loc : {PyStr("L2")}, code : {PyStr("00060")},
              time : {PyStr("2024-01-01"), PyStr("n/a")},
              value : {PyFloat(1000), PyFloat(3000)}]

SummaryDvTables == {DvTable(k) : k \in SeqsUpTo(SummaryDvKinds, MaxSummaryRows)}

InitSummary ==
    \E dv \in SummaryDvTables :
        TablesLoaded(dv, LocTable(<<LocL1, LocL2>>), ParamNominal, StatNominal)

SpecSummary == InitSummary /\ [][NextTables]_vars


-----------------------------------------------------------------------------
(* Claims about the joiner *)

JoinReturned == joined_df.status = "returned"

\* the location columns the join brings in
JoinedLocationColumns ==
    {"agency_name", "monitoring_location_name", "country_name", "state_name",
     "county_name", "site_type"}

\* the rows of the joined table that come from the i-th daily-values row
JoinedRowsOf(i) ==
    {j \in 1..Len(joined_df.value.rows) :
        /\ joined_df.value.rows[j]["id_x"] = dv_df.rows[i]["id"]
        /\ \A c \in Columns(dv_df) \ {"id"} :
               joined_df.value.rows[j][c] = dv_df.rows[i][c]}

\* the i-th daily-values row has a location row with its identifier
HasLocation(i) ==
    \E l \in 1..Len(loc_df.rows) :
        loc_df.rows[l]["id"] = dv_df.rows[i]["monitoring_location_id"]

\* C7: every row of the daily-values table appears in the output of
\* join_daily_values_with_locations with its own values; a row whose
\* monitoring_location_id matches no id of the location table appears once
\* and has null in every joined location column.
C7_LeftJoinKeepsEveryRow ==
    JoinReturned =>
        /\ \A i \in 1..Len(dv_df.rows) : JoinedRowsOf(i) # {}
        /\ \A j \in 1..Len(joined_df.value.rows) :
               \E i \in 1..Len(dv_df.rows) : j \in JoinedRowsOf(i)
        /\ \A i \in 1..Len(dv_df.rows) :
               ~HasLocation(i) =>
                   /\ Cardinality(JoinedRowsOf(i)) = 1
                   /\ \A j \in JoinedRowsOf(i) : \A c \in JoinedLocationColumns :
                          joined_df.value.rows[j][c] = None

\* C7 witness: of two daily values, one of a known location and one whose
\* location (L2) is not in the location table, both are in the output and
\* the second has no location name
C7_Witness ==
    /\ JoinReturned
    /\ Len(dv_df.rows) = 2
    /\ HasLocation(1)
    /\ ~HasLocation(2)
    /\ dv_df.rows[2]["monitoring_location_id"] = PyStr("L2")
    /\ Len(joined_df.value.rows) = 2
    /\ joined_df.value.rows[1]["monitoring_location_name"] = PyStr("RIO GRANDE, NM")
    /\ joined_df.value.rows[2]["monitoring_location_name"] = None

-----------------------------------------------------------------------------
(* Claims about the cleaner *)

CleanReturned == parsed_df.status = "returned"

\* the number a value of the model stands for; None when it stands for none
NumberOf(v) ==
    CASE v = PyStr("3.5") -> PyFloat(3500)
      [] v = PyStr("1.0") -> PyFloat(1000)
      [] v.t = "float" -> v
      [] OTHER -> None

\* the day a time of the input names; None when it names none
TimeOf(v) ==
    CASE v = PyStr("2024-01-01") -> Timestamp(1, "naive")
      [] v = PyStr(" 2024-01-02 ") -> Timestamp(2, "naive")
      [] OTHER -> None

\* the rows of the cleaner's input (the joined table)
CleanInput == joined_df.value.rows

\* the rows of the cleaned table that come from the i-th input row
CleanedRowsOf(i) ==
    {j \in 1..Len(parsed_df.value.rows) :
        parsed_df.value.rows[j]["id"] = CleanInput[i]["id_x"]}

\* C5: clean_and_transform_data removes every input row whose value does not
\* coerce to a number and retains every input row whose value does, with the
\* value converted to that number, whatever nulls its other columns hold.
C5_ValueAloneDecidesSurvival ==
    CleanReturned =>
        /\ \A i \in 1..Len(CleanInput) :
               IF NumberOf(CleanInput[i]["value"]) = None
                   THEN CleanedRowsOf(i) = {}
                   ELSE /\ CleanedRowsOf(i) # {}
                        /\ \A j \in CleanedRowsOf(i) :
                               parsed_df.value.rows[j]["value"]
                                   = NumberOf(CleanInput[i]["value"])
        /\ \A j \in 1..Len(parsed_df.value.rows) :
               \E i \in 1..Len(CleanInput) : j \in CleanedRowsOf(i)

\* C5 witness: "not_a_number" is removed; "3.5" on a row without time and
\* without location is retained as 3.5
C5_Witness ==
    /\ CleanReturned
    /\ Len(CleanInput) = 2
    /\ CleanInput[1]["value"] = PyStr("not_a_number")
    /\ CleanInput[2]["value"] = PyStr("3.5")
    /\ CleanInput[2]["time"] = None
    /\ CleanInput[2]["monitoring_location_name"] = None
    /\ Len(parsed_df.value.rows) = 1
    /\ parsed_df.value.rows[1]["id"] = CleanInput[2]["id_x"]
    /\ parsed_df.value.rows[1]["value"] = PyFloat(3500)
    /\ parsed_df.value.rows[1]["time"] = None

\* C6 (as claimed): the cleaner run a second time on its own output
\* completes and yields the same row count and the same values.
C6_CleanerIdempotent ==
    reparsed_df.status # "none" =>
        /\ reparsed_df.status = "returned"
        /\ Len(reparsed_df.value.rows) = Len(parsed_df.value.rows)
        /\ reparsed_df.value.rows = parsed_df.value.rows

\* what the second run does instead: line 110 finds no column "id" to drop
C6_SecondRunRaises ==
    reparsed_df.status # "none" => reparsed_df = Raised("KeyError")

\* C9 (as claimed): every row of the cleaned table has a valid number in
\* value and a valid, non-null timestamp in time.
C9_ValueAndTimeValid ==
    CleanReturned =>
        \A j \in 1..Len(parsed_df.value.rows) :
            /\ parsed_df.value.rows[j]["value"].t = "float"
            /\ parsed_df.value.rows[j]["time"].t = "timestamp"

\* C9 (amended): every row of the cleaned table has a valid number in value,
\* and a row whose value fails coercion is not in the output; time is a
\* valid timestamp or null, and a row whose time fails coercion is kept,
\* with a null time, when its value is a number.
C9_ValueValidTimeMayBeNull ==
    CleanReturned =>
        /\ \A j \in 1..Len(parsed_df.value.rows) :
               /\ parsed_df.value.rows[j]["value"].t = "float"
               /\ parsed_df.value.rows[j]["time"].t \in {"timestamp", "none"}
        /\ \A i \in 1..Len(CleanInput) :
               /\ NumberOf(CleanInput[i]["value"]) = None => CleanedRowsOf(i) = {}
               /\ NumberOf(CleanInput[i]["value"]) # None =>
                      /\ CleanedRowsOf(i) # {}
                      /\ \A j \in CleanedRowsOf(i) :
                             parsed_df.value.rows[j]["time"] = TimeOf(CleanInput[i]["time"])

\* C9 witness: a row whose time "n/a" fails coercion is in the cleaned table
\* with a null time and its number
C9_Witness ==
    /\ CleanReturned
    /\ Len(CleanInput) = 1
    /\ CleanInput[1]["time"] = PyStr("n/a")
    /\ CleanInput[1]["value"] = PyFloat(1000)
    /\ Len(parsed_df.value.rows) = 1
    /\ parsed_df.value.rows[1]["time"] = None
    /\ parsed_df.value.rows[1]["value"] = PyFloat(1000)

-----------------------------------------------------------------------------
(* Claims about the summarizer *)

SummaryReturned == summary.status = "returned"

\* the rows of the cleaned table in group k
GroupRows(k) ==
    {j \in 1..Len(parsed_df.value.rows) : KeyOf(parsed_df.value.rows[j]) = k}

\* the latest time in group k; None when no row of the group has a time
LatestTime(k) ==
    LET timed == {j \in GroupRows(k) : ~IsNa(parsed_df.value.rows[j]["time"])} IN
    IF timed = {} THEN None
    ELSE parsed_df.value.rows[CHOOSE j \in timed :
             \A o \in timed : parsed_df.value.rows[o]["time"].day
                                  <= parsed_df.value.rows[j]["time"].day]["time"]

\* the lines of the report for group k
LinesOf(k) ==
    {n \in 1..Len(summary.value) :
        /\ summary.value[n].Site = StripNM(k[1].s)
        /\ summary.value[n].Parameter = k[2].s}

\* C8 (as claimed): the report has exactly one line per (site, parameter)
\* group; its count, minimum, maximum and mean (to 2 decimals) are those of
\* the group's values, its most recent time is the latest time in the group,
\* and its most recent value and unit are those of a row of the group whose
\* time is that latest time.
C8_SummaryLinePerGroup ==
    SummaryReturned =>
        /\ Len(summary.value) = Cardinality(GroupKeys(parsed_df.value))
        /\ \A k \in GroupKeys(parsed_df.value) :
               /\ Cardinality(LinesOf(k)) = 1
               /\ \A n \in LinesOf(k) :
                      LET line == summary.value[n]
                          vals == {parsed_df.value.rows[j]["value"].m : j \in GroupRows(k)}
                          total == SumOf([i \in 1..Len(parsed_df.value.rows) |->
                                             IF i \in GroupRows(k)
                                                 THEN parsed_df.value.rows[i]["value"].m
                                                 ELSE 0])
                      IN  /\ line.Obs = Cardinality(GroupRows(k))
                          /\ line.Min = PyFloat(Round2(SetMin(vals), 1))
                          /\ line.Max = PyFloat(Round2(SetMax(vals), 1))
                          /\ line.Avg = PyFloat(Round2(total, Cardinality(GroupRows(k))))
                          /\ line.RecentDate
                                 = (IF LatestTime(k) = None THEN None
                                    ELSE PyStr(DateText(LatestTime(k).day)))
                          /\ \E j \in GroupRows(k) :
                                 /\ parsed_df.value.rows[j]["time"] = LatestTime(k)
                                 /\ line.Recent
                                        = PyFloat(Round2(parsed_df.value.rows[j]["value"].m, 1))
                                 /\ line.Unit = parsed_df.value.rows[j]["unit_of_measure"]

\* the spec's example holds: 1.0 at T1 and 3.0 at T2 > T1 give min 1.0,
\* max 3.0, avg 2.0, most recent value 3.0 at T2
C8_ExampleReached ==
    /\ SummaryReturned
    /\ Len(parsed_df.value.rows) = 2
    /\ Len(summary.value) = 1
    /\ summary.value[1].Min = PyFloat(1000)
    /\ summary.value[1].Max = PyFloat(3000)
    /\ summary.value[1].Avg = PyFloat(2000)
    /\ summary.value[1].Recent = PyFloat(3000)
    /\ summary.value[1].RecentDate = PyStr("2024-01-02")

\* where the report departs from C8: a group with a row without time; the
\* line's most recent value is that row's, not the value at the latest time
C8_RecentValueFromUntimedRow ==
    /\ SummaryReturned
    /\ Len(parsed_df.value.rows) = 2
    /\ Len(summary.value) = 1
    /\ parsed_df.value.rows[1]["time"] = Timestamp(1, "naive")
    /\ parsed_df.value.rows[1]["value"] = PyFloat(1000)
    /\ parsed_df.value.rows[2]["time"] = None
    /\ parsed_df.value.rows[2]["value"] = PyFloat(3000)
    /\ summary.value[1].RecentDate = PyStr("2024-01-01")
    /\ summary.value[1].Recent = PyFloat(3000)

-----------------------------------------------------------------------------
(* Claims about the configuration and the identifiers of the fetch run *)

\* a numeric setting that is unset, not a number, zero or negative
NotPositiveInt(v) == IntRaises(v) \/ IntOf(v) <= 0

\* the configuration C11 calls invalid
ConfigInvalid ==
    \/ EnvMissing(env.USGS_DV_BASE_URL)
    \/ EnvMissing(env.DV_QUERY_PARAMS)
    \/ JsonRaises(env.DV_QUERY_PARAMS)
    \/ NotPositiveInt(env.DV_BATCH_SIZE)
    \/ NotPositiveInt(env.API_TIMEOUT_SECONDS)
    \/ NotPositiveInt(env.DV_TIME_RANGE_DAYS)

\* C11 (as claimed): with an invalid configuration (base URL or template
\* missing, template not JSON, batch size, timeout or day-count missing or
\* not a positive integer) the fetch issues no HTTP request and returns no
\* Combined Result.
C11_InvalidConfigIsFatal ==
    ConfigInvalid => (requests = <<>> /\ combined.status # "returned")

\* the part of C11 the code keeps: a missing or malformed URL or template and
\* a numeric setting that is no integer end the call before any request
C11_MalformedConfigIsFatal ==
    (ConfigError(env) # "" /\ pc # "main_fetch") =>
        (requests = <<>> /\ combined = Raised(ConfigError(env)) /\ pc = "aborted")

\* where the code departs from C11: a day-count of -1 with an otherwise valid
\* configuration; a request is sent and a Combined Result is returned
C11_NegativeDaysFetched ==
    /\ env.DV_TIME_RANGE_DAYS = NumStr(0 - 1)
    /\ requests # <<>>
    /\ requests[1].time = [start |-> env.clock + 1, end |-> env.clock]
    /\ combined.status = "returned"

\* where the code departs from C11: a batch size of -1; no request is sent
\* and a Combined Result without features and with 0 batches is returned
C11_NegativeBatchSizeReturns ==
    /\ env.DV_BATCH_SIZE = NumStr(0 - 1)
    /\ ids # <<>>
    /\ requests = <<>>
    /\ combined.status = "returned"
    /\ combined.value.features = <<>>
    /\ combined.value.batches = 0

\* the collection supplies no identifier
NoIdentifiers == extract_location_ids(locations_json) = <<>>

\* C12: when the locations collection yields zero identifiers the fetch, once
\* entered, has failed with a fatal error and issued no HTTP request (with a
\* valid configuration the error is the RuntimeError of line 117).
C12_NoIdentifiersIsFatal ==
    (NoIdentifiers /\ pc # "main_fetch") =>
        /\ pc = "aborted"
        /\ requests = <<>>
        /\ combined.status = "raised"
        /\ ConfigError(env) = "" =>
               combined = Raised("RuntimeError: No monitoring location IDs found")

\* C12 witness: a collection whose only feature has no identifier, with a
\* valid configuration, ends the fetch with the RuntimeError and no request
C12_Witness ==
    /\ locations_json = [features |-> <<[properties |-> PyDict(EmptyDict)]>>]
    /\ ConfigError(env) = ""
    /\ pc = "aborted"
    /\ requests = <<>>
    /\ combined = Raised("RuntimeError: No monitoring location IDs found")

\* C12, for extract_location_ids itself: on a collection without features or
\* without any truthy identifier it returns the empty list and raises nothing
C12_ExtractReturnsEmpty ==
    (pc = "returned" /\ input.fn = "extract_location_ids") =>
        /\ output.status = "returned"
        /\ (\A k \in 1..Len(Get(input.locations_json, "features", <<>>)) :
               FeatureId(input.locations_json.features[k]) = <<>>)
              => output.value = <<>>

-----------------------------------------------------------------------------
(* lookups.get_or_fetch_json: the cache file and the calls made on it *)

MaxGets == 2
MaxRevisions == 2

\* lines 9-28: the RuntimeError _load_json_env raises, or "" for none
LoadJsonEnvError(v) ==
    IF EnvMissing(v) THEN "RuntimeError: Missing QUERY_PARAMS"
    ELSE IF JsonRaises(v) THEN "RuntimeError: QUERY_PARAMS is not valid JSON"
    ELSE ""

\* lines 53-59: the error of the settings every call needs, or "" for none
PathConfigError(e) ==
    IF EnvMissing(e.USGS_LOCATIONS_BASE_URL)
        THEN "RuntimeError: Missing USGS_LOCATIONS_BASE_URL"
    ELSE IF EnvMissing(e.OUTPUT_FILE) THEN "RuntimeError: Missing OUTPUT_FILE"
    ELSE ""

\* lines 67-70: the error raised before anything is sent, or "" for none
FetchConfigError(e) ==
    IF LoadJsonEnvError(e.QUERY_PARAMS) # "" THEN LoadJsonEnvError(e.QUERY_PARAMS)
    ELSE IF IntRaises(e.API_TIMEOUT_SECONDS) THEN "int(API_TIMEOUT_SECONDS) raised"
    ELSE IF IntOf(e.API_TIMEOUT_SECONDS) <= 0 THEN "ValueError: timeout"
    ELSE ""

\* mutant: an existing cache file is served whatever refresh says
NeedsFetch_IgnoreRefresh(file, refresh) == file = None

\* line 64, negated: the call goes on to fetch
NeedsFetch(file, refresh) == ~(file # None /\ ~refresh)

\* mutant: the file is opened for writing before the response is checked
FileOnFailure_Truncated(file) == PyStr("")

\* lines 70-73: raise_for_status and r.json() come before write_text, so a
\* call that raises there leaves the file alone
FileOnFailure(file) == file

\* line 73: json.dumps(r.json(), indent=2)
DumpsJson(body) == JsonStr(body.d)

\* r.json() raises on a body that is not JSON
BodyRaises(body) == body.t # "jsonstr"

\* the bodies a server may answer with
CacheBodies == {JsonStr([rev |-> n]) : n \in 1..MaxRevisions} \cup {PyStr("<html>")}

\* the arguments of a call
CacheCalls == {[fn |-> "get_or_fetch_json", refresh |-> b] : b \in BOOLEAN}

\* lines 53-59: a setting every call needs is missing
GetOrFetchMissingSetting ==
    /\ \E call \in CacheCalls : input' = call
    /\ PathConfigError(env) # ""
    /\ output' = Raised(PathConfigError(env))
    /\ pc' = "returned"
    /\ UNCHANGED <<tableVars, fetchVars, lookupVars>>

\* lines 64-65: the cached path is returned
GetOrFetchCached ==
    /\ \E call \in CacheCalls :
          /\ input' = call
          /\ ~NeedsFetch(cache_file, call.refresh)
    /\ PathConfigError(env) = ""
    /\ output' = Returned(env.OUTPUT_FILE)
    /\ pc' = "returned"
    /\ UNCHANGED <<tableVars, fetchVars, lookupVars>>

\* lines 67-70: the template or the timeout is rejected, nothing is sent
GetOrFetchBadSetting ==
    /\ \E call \in CacheCalls :
          /\ input' = call
          /\ NeedsFetch(cache_file, call.refresh)
    /\ PathConfigError(env) = ""
    /\ FetchConfigError(env) # ""
    /\ output' = Raised(FetchConfigError(env))
    /\ pc' = "returned"
    /\ UNCHANGED <<tableVars, fetchVars, lookupVars>>

\* lines 70-71: the GET is answered with an error status, or (line 73) with
\* a body that is not JSON
GetOrFetchFailed ==
    /\ Len(requests) < MaxGets
    /\ \E call \in CacheCalls :
          /\ input' = call
          /\ NeedsFetch(cache_file, call.refresh)
    /\ PathConfigError(env) = ""
    /\ FetchConfigError(env) = ""
    /\ \E status \in Statuses, body \in CacheBodies :
          /\ StatusRaises(status) \/ BodyRaises(body)
          /\ requests' = Append(requests, env.QUERY_PARAMS.d)
          /\ responses' = Append(responses, [status |-> status, data |-> body])
          /\ output' = Raised(IF StatusRaises(status) THEN "HTTPError"
                              ELSE "JSONDecodeError")
    /\ cache_file' = FileOnFailure(cache_file)
    /\ pc' = "returned"
    /\ UNCHANGED <<tableVars, locations_json, env, ids, time_range, batches,
                   all_features, first_page_meta, combined, dv_file>>

\* lines 70-74: the GET succeeds and the response is written to the file
GetOrFetchFetched ==
    /\ Len(requests) < MaxGets
    /\ \E call \in CacheCalls :
          /\ input' = call
          /\ NeedsFetch(cache_file, call.refresh)
    /\ PathConfigError(env) = ""
    /\ FetchConfigError(env) = ""
    /\ \E status \in Statuses, body \in CacheBodies :
          /\ ~StatusRaises(status)
          /\ ~BodyRaises(body)
          /\ requests' = Append(requests, env.QUERY_PARAMS.d)
          /\ responses' = Append(responses, [status |-> status, data |-> body])
          /\ cache_file' = DumpsJson(body)
    /\ output' = Returned(env.OUTPUT_FILE)
    /\ pc' = "returned"
    /\ UNCHANGED <<tableVars, locations_json, env, ids, time_range, batches,
                   all_features, first_page_meta, combined, dv_file>>

\* every combination of set, unset and malformed settings
CacheEnvs ==
    [USGS_LOCATIONS_BASE_URL : {None, PyStr("https://api/locations")},
     OUTPUT_FILE : {None, PyStr("outputs/locations.json")},
     QUERY_PARAMS : {None, PyStr("{not json"), JsonStr([f |-> "json"])},
     API_TIMEOUT_SECONDS : {None, NumStr(0), NumStr(30)}]

\* the file before the first call: absent, or written by an earlier run
CacheFiles == {None, JsonStr([rev |-> 0])}

InitCache ==
    /\ pc = "call"
    /\ input = NoInput
    /\ output = NoCall
    /\ TablesIdle
    /\ locations_json = EmptyDict
    /\ env \in CacheEnvs
    /\ ids = <<>>
    /\ time_range = ""
    /\ batches = <<>>
    /\ requests = <<>>
    /\ responses = <<>>
    /\ all_features = <<>>
    /\ first_page_meta = None
    /\ combined = NoCall
    /\ dv_file = None
    /\ cache_file \in CacheFiles

NextCache ==
    \/ GetOrFetchMissingSetting
    \/ GetOrFetchCached
    \/ GetOrFetchBadSetting
    \/ GetOrFetchFailed
    \/ GetOrFetchFetched

SpecCache == InitCache /\ [][NextCache]_vars

-----------------------------------------------------------------------------
(* Claims about the cache policy of get_or_fetch_json *)

\* a call is a step that sets the arguments and the result
CallStep == input' \in CacheCalls

\* the call gets past the settings every call needs (lines 53-59)
PathsConfigured == PathConfigError(env) = ""

\* the call gets past the settings a fetch needs as well (lines 67-68)
FetchConfigured == PathsConfigured /\ FetchConfigError(env) = ""

\* the response the call's GET got is a success: a 2xx status and a JSON body
LastResponseOk ==
    /\ ~(responses'[Len(responses')].status >= 400)
    /\ responses'[Len(responses')].data.t = "jsonstr"

\* C13: over any sequence of calls with the settings in place, a call made
\* when the cache file exists and refresh is false returns the cached path,
\* issues no request and leaves the file's content unchanged; every other
\* call (file absent, or refresh true) issues exactly one GET and, when that
\* succeeds, the file holds that response, whatever it held before.
C13_CachePolicy ==
    [][CallStep =>
          /\ (PathsConfigured /\ cache_file # None /\ ~input'.refresh) =>
                 /\ output' = Returned(env.OUTPUT_FILE)
                 /\ requests' = requests
                 /\ cache_file' = cache_file
          /\ (FetchConfigured /\ (cache_file = None \/ input'.refresh)) =>
                 /\ Len(requests') = Len(requests) + 1
                 /\ SubSeq(requests', 1, Len(requests)) = requests
                 /\ LastResponseOk =>
                        /\ cache_file' = JsonStr(responses'[Len(responses')].data.d)
                        /\ output' = Returned(env.OUTPUT_FILE)]_vars

\* C13 witness: two refreshes fetched revisions 1 and 2, the file holds
\* revision 2, and the last call, without refresh, returned the cached path
\* without a third request
C13_Witness ==
    /\ Len(requests) = 2
    /\ responses[1] = [status |-> 200, data |-> JsonStr([rev |-> 1])]
    /\ responses[2] = [status |-> 200, data |-> JsonStr([rev |-> 2])]
    /\ cache_file = JsonStr([rev |-> 2])
    /\ input = [fn |-> "get_or_fetch_json", refresh |-> FALSE]
    /\ output = Returned(env.OUTPUT_FILE)

\* the call's GET, if it sent one, failed
LastResponseFailed ==
    /\ Len(requests') = Len(requests) + 1
    /\ ~LastResponseOk

\* C18: a call that has to fetch (file absent or refresh true) and meets a
\* non-success status or an invalid configuration (template missing or
\* malformed, timeout missing) raises and leaves the cache file as it was:
\* an existing file keeps its content and an absent one is not created.
C18_FailedFetchKeepsCache ==
    [][(CallStep /\ PathsConfigured /\ (cache_file = None \/ input'.refresh)
            /\ (FetchConfigError(env) # "" \/ LastResponseFailed)) =>
          /\ output'.status = "raised"
          /\ cache_file' = cache_file]_vars

\* C18 witness: a refresh of an existing cache answered with status 503 has
\* raised and the file still holds the old revision
C18_Witness ==
    /\ cache_file = JsonStr([rev |-> 0])
    /\ input = [fn |-> "get_or_fetch_json", refresh |-> TRUE]
    /\ Len(requests) = 1
    /\ responses[1].status = 503
    /\ output = Raised("HTTPError")

\* C18, the other cases: an absent file is not created by a call that raises
\* on the template, and an existing file survives a refresh without timeout
C18_ConfigFailureReached ==
    /\ cache_file = None
    /\ output = Raised("RuntimeError: QUERY_PARAMS is not valid JSON")
    /\ requests = <<>>

-----------------------------------------------------------------------------
(* Claims about where extract_location_ids takes an identifier from *)

\* properties.id of a feature, None when the feature has none
PropertiesIdOf(f) ==
    IF "properties" \in DOMAIN f /\ f["properties"].t = "dict"
           /\ "id" \in DOMAIN f["properties"].d
        THEN f["properties"].d["id"]
        ELSE None

\* the top-level id of a feature, None when the feature has none
TopLevelIdOf(f) == IF "id" \in DOMAIN f THEN f["id"] ELSE None

\* present and truthy: neither absent, nor "", nor 0
Supplied(v) == v # None /\ v # PyStr("") /\ v # PyInt(0)

\* an identifier as text
TextOf(v) ==
    CASE v = PyInt(1) -> "1"
      [] v = PyStr("1") -> "1"
      [] v = PyStr("a") -> "a"

\* the identifiers C14 says feature f supplies: at most one
ClaimedIds(f) ==
    IF Supplied(PropertiesIdOf(f)) THEN {TextOf(PropertiesIdOf(f))}
    ELSE IF Supplied(TopLevelIdOf(f)) THEN {TextOf(TopLevelIdOf(f))}
    ELSE {}

\* C14: extract_location_ids returns without error; each feature supplies
\* properties.id when that is present and truthy, otherwise its top-level id
\* when that is present and truthy, and otherwise nothing; the identifiers
\* are text, so that 1 and "1" are one identifier, and none is listed twice.
C14_PropertiesIdFirstAsText ==
    (pc = "returned" /\ input.fn = "extract_location_ids") =>
        LET fs == Get(input.locations_json, "features", <<>>)
            out == output.value
        IN  /\ output.status = "returned"
            /\ Range(out) = UNION {ClaimedIds(fs[k]) : k \in 1..Len(fs)}
            /\ \A i, j \in 1..Len(out) : i # j => out[i] # out[j]

\* C14 witness: a feature with properties.id 1 and top-level id "a", a
\* feature with properties.id "1" and a feature without any id give "1" alone
C14_Witness ==
    /\ ExtractReturned
    /\ input.locations_json
           = [features |-> <<[properties |-> PyDict([id |-> PyInt(1)]), id |-> PyStr("a")],
                             [properties |-> PyDict([id |-> PyStr("1")])],
                             [properties |-> PyDict(EmptyDict)]>>]
    /\ output.value = <<"1">>

\* C14, the fallback: properties without a truthy id leave the top-level id
C14_FallbackReached ==
    /\ ExtractReturned
    /\ input.locations_json
           = [features |-> <<[properties |-> PyDict([id |-> PyInt(0)]), id |-> PyStr("a")],
                             [properties |-> None, id |-> PyStr("a")]>>]
    /\ output.value = <<"a">>

-----------------------------------------------------------------------------
(* Claims about the keys of the Combined Result *)

\* the keys the run sets itself (lines 149-154)
ProvenanceKeys ==
    {"features", "numberReturned", "total_features", "batch_size", "batches",
     "time_range"}

\* C15: in the Combined Result of a run with at least one response, every
\* key of the first response other than the provenance keys has the first
\* response's value, no other key appears (none from a later response), the
\* provenance keys hold the run's own values (numberReturned is the combined
\* feature count), and time_range is the time parameter of every request.
C15_MetaFromFirstResponse ==
    (RunSucceeded /\ Len(responses) >= 1) =>
        LET first == responses[1].data
            c == combined.value
        IN  /\ DOMAIN c = ((DOMAIN first) \ {"features"}) \cup ProvenanceKeys
            /\ \A k \in (DOMAIN first) \ ProvenanceKeys : c[k] = first[k]
            /\ c.features = Concat([k \in 1..Len(responses) |-> DeliveredBy(k)])
            /\ c.numberReturned = Len(c.features)
            /\ c.total_features = Len(c.features)
            /\ c.batch_size = IntOf(env.DV_BATCH_SIZE)
            /\ c.batches = Len(requests)
            /\ \A k \in 1..Len(requests) : requests[k].time = c.time_range

\* C15 witness: the first of two responses has type and numberReturned 1,
\* the second has features only; the result carries type, and numberReturned
\* is the combined count 3
C15_Witness ==
    /\ RunSucceeded
    /\ Len(responses) = 2
    /\ DOMAIN responses[1].data = {"features", "type", "numberReturned"}
    /\ responses[1].data.numberReturned = 1
    /\ DOMAIN responses[2].data = {"features"}
    /\ Len(DeliveredBy(2)) = 2
    /\ combined.value.type = "FeatureCollection"
    /\ combined.value.numberReturned = 3
    /\ requests[1].time = combined.value.time_range
    /\ requests[2].time = combined.value.time_range

\* C15, a key of a later response only: the first response has features
\* alone, the second has type; the result has no type
C15_LaterKeyAbsentReached ==
    /\ RunSucceeded
    /\ Len(responses) = 2
    /\ DOMAIN responses[1].data = {"features"}
    /\ "type" \in DOMAIN responses[2].data
    /\ "type" \notin DOMAIN combined.value

-----------------------------------------------------------------------------
(* Claims about the lookup joins of the cleaner *)

\* the input rows of the cleaner whose value is a number
NumericInputRows == {i \in 1..Len(CleanInput) : NumberOf(CleanInput[i]["value"]) # None}

\* C16 (as claimed): the lookup joins cause no fan-out; every input row with
\* a numeric value yields exactly one output row and the output has as many
\* rows as the input has rows with a numeric value, also when a lookup table
\* holds several rows for one code.
C16_NoFanOut ==
    CleanReturned =>
        /\ Len(parsed_df.value.rows) = Cardinality(NumericInputRows)
        /\ \A i \in NumericInputRows : Cardinality(CleanedRowsOf(i)) = 1

\* what holds instead: the lookup is de-duplicated by (code, name) pairs, so
\* a row yields one output row per distinct name listed for its code (one
\* when the code is not listed)
C16_OneRowPerListedName ==
    CleanReturned =>
        \A i \in NumericInputRows :
            LET names == {param_df.rows[p]["parameter_name"] :
                             p \in {q \in 1..Len(param_df.rows) :
                                       param_df.rows[q]["id"] = CleanInput[i]["parameter_code"]}}
            IN  /\ Cardinality(CleanedRowsOf(i))
                       = (IF names = {} THEN 1 ELSE Cardinality(names))
                /\ names # {} =>
                       {parsed_df.value.rows[j]["parameter_name"] : j \in CleanedRowsOf(i)}
                           = names

\* where the code departs from C16: code 00060 is listed with two names and
\* the one input row comes out twice, once per name
C16_FanOutReached ==
    /\ CleanReturned
    /\ param_df = ParamTwoNames
    /\ Len(CleanInput) = 1
    /\ CleanInput[1]["value"] = PyStr("3.5")
    /\ Len(parsed_df.value.rows) = 2
    /\ parsed_df.value.rows[1]["id"] = parsed_df.value.rows[2]["id"]
    /\ parsed_df.value.rows[1]["parameter_name"] # parsed_df.value.rows[2]["parameter_name"]

\* an exact repetition of a lookup row is removed and causes no fan-out
C16_RepeatedRowReached ==
    /\ CleanReturned
    /\ param_df = ParamRepeated
    /\ Len(CleanInput) = 1
    /\ CleanInput[1]["value"] = PyStr("3.5")
    /\ Len(parsed_df.value.rows) = 1

-----------------------------------------------------------------------------
(* Claims about responses without a feature list *)

\* response k has a features field that is a list
HasFeatureList(k) ==
    /\ "features" \in DOMAIN responses[k].data
    /\ responses[k].data.features.t = "list"

\* the responses of the run that have no feature list
WithoutFeatureList == {k \in 1..Len(responses) : ~HasFeatureList(k)}

\* C17: in a run whose requests all succeed, a response whose features field
\* is missing or is not a list adds nothing to the Combined Result and
\* raises no error: every batch is requested and counted in batches, every
\* feature of the result comes from a response with a feature list, and
\* every such response's features are all in the result.
C17_NonListFeaturesAddNothing ==
    (RunSucceeded /\ WithoutFeatureList # {}) =>
        LET c == combined.value
            listed == (1..Len(responses)) \ WithoutFeatureList
        IN  /\ Len(requests) = Len(batches)
            /\ c.batches = Len(batches)
            /\ \A i \in 1..Len(c.features) :
                   \E k \in listed : c.features[i] \in Range(responses[k].data.features.l)
            /\ \A k \in listed : Range(responses[k].data.features.l) \subseteq Range(c.features)
            /\ Len(c.features)
                   = Len(Concat([k \in 1..Len(responses) |->
                                    IF k \in listed THEN responses[k].data.features.l
                                                    ELSE <<>>]))

\* a response without feature list does not end the run
C17_RunContinues ==
    (pc = "aborted" /\ requests # <<>>) => combined = Raised("HTTPError")

\* C17 witness: of three batches the second is answered with features null
\* and the third without features field; the run returns batches = 3 and
\* the two features of the first response
C17_Witness ==
    /\ RunSucceeded
    /\ Len(responses) = 3
    /\ HasFeatureList(1)
    /\ Len(responses[1].data.features.l) = 2
    /\ "features" \in DOMAIN responses[2].data
    /\ responses[2].data.features = None
    /\ "features" \notin DOMAIN responses[3].data
    /\ combined.value.batches = 3
    /\ combined.value.features = responses[1].data.features.l

=============================================================================
